---- MODULE Spec2Model ----
(***************************************************************************)
(* Model of the FastAPI video processing backend ("Vikas AI app.py",       *)
(* src/unnamed/part_000 lines 84-430): the /upload, /process and /download *)
(* handlers and the VideoProcessor class they drive.                       *)
(*                                                                         *)
(* The handlers are "async def" coroutines that contain no await and the   *)
(* application is started with uvicorn.run(app) (one process, one event    *)
(* loop), so a handler runs to completion before the next one starts.  The *)
(* model keeps that: one handler invocation is in progress at a time, and  *)
(* /process is split into its pipeline steps so that the intermediate      *)
(* states of a job are visible.                                            *)
(*                                                                         *)
(* File names are sequences of string tokens whose last token is the       *)
(* extension; a path is a record [dir, name]; file contents are sequences  *)
(* of string tokens.  The transcoder (ffmpeg) is an opaque collaborator:   *)
(* every invocation either succeeds and writes its output, or fails with   *)
(* ffmpeg.Error and writes nothing.                                        *)
(***************************************************************************)
EXTENDS Integers, Sequences, FiniteSets, TLC

\* ---------------------------------------------------------------- bounds
\* the last second the clock reaches
MaxClock == 1
\* the number of uuid4() values the service draws (one per saved upload
\* file, one per job)
MaxUuid == 3

\* ------------------------------------------------------------- constants
UPLOAD_DIR == "uploads"
OUTPUT_DIR == "outputs"
ALLOWED_EXTENSIONS == {".mp4", ".mov", ".avi", ".mkv", ".webm"}
VOICE_EXTENSIONS == {".wav", ".mp3"}

Roles == {"enhanced", "no_watermark", "audio", "short", "final"}

VARIABLES
    fs,         \* the file system: path -> content, for the files that exist
    clock,      \* time.time(), in whole seconds
    uuid,       \* number of uuid4() values drawn so far
    job,        \* the locals of the /process invocation, with its position
    reply,      \* the response of the last handler that returned
    log,        \* the log records written by the handler invocation
    writers     \* history: output path -> the job ids that wrote it

vars == <<fs, clock, uuid, job, reply, log, writers>>

\* The Flask trimming backend (src/app.py) is a second program with its own
\* folders; its state is kept apart and is left alone by the handlers above.
VARIABLES
    ffs,        \* its file system: path -> ctime, for the files that exist
    fnow,       \* datetime.now().timestamp(), in seconds
    fuuid,      \* number of uuid4() values it has drawn
    freq,       \* its /process requests that saved an upload: id -> locals
    fres        \* the response of the last request that returned

flask_vars == <<ffs, fnow, fuuid, freq, fres>>

\* ------------------------------------------------------- names and paths
NoName == <<>>
NoPath == [dir |-> "", name |-> NoName]
GhostVideo == <<"video_", "ghost", ".mp4">>
GhostVoice == <<"voice_", "ghost", ".mp3">>

\* str(uuid.uuid4()): a token never returned before
uuid4(n) == ToString(n + 1)

\* str.lower() on the extensions the requests use
lower(ext) ==
    CASE ext = ".MP4" -> ".mp4"
      [] ext = ".MP3" -> ".mp3"
      [] ext = "MP4" -> "mp4"
      [] OTHER -> ext

\* os.path.splitext: <<root, ext>>
splitext(name) ==
    IF name = NoName THEN <<NoName, "">>
    ELSE <<SubSeq(name, 1, Len(name) - 1), name[Len(name)]>>

\* os.path.join(dir, name)
join(dir, name) == [dir |-> dir, name |-> name]

\* os.path.basename
basename(path) == path.name

\* os.path.exists
exists(files, path) == path \in DOMAIN files

\* the file system after path is written with content
WriteFile(files, path, content) ==
    [p \in DOMAIN files \cup {path} |-> IF p = path THEN content ELSE files[p]]

\* the file system after os.remove of every path in paths
RemoveFiles(files, paths) ==
    [p \in DOMAIN files \ paths |-> files[p]]

Range(s) == {s[i] : i \in DOMAIN s}


\* ------------------------------------------------------------- log, reply
LogRecord(level, event) == <<level, event>>

NoExc == [type |-> "", status |-> 0, detail |-> ""]

\* a response: cause is history, the exception the handler body raised
NoReply == [route |-> "", status |-> 0, detail |-> <<>>, job_id |-> "",
            downloads |-> <<>>, cause |-> NoExc]

\* a successful response of a route
Response(route, job_id, detail, downloads) ==
    [route |-> route, status |-> 200, detail |-> detail, job_id |-> job_id,
     downloads |-> downloads, cause |-> NoExc]

\* an exception object: its class, its HTTP status if it has one, str(e)
Exc(type, status, detail) == [type |-> type, status |-> status, detail |-> detail]

\* "except Exception as e: raise HTTPException(500, prefix + str(e))": the
\* response the caller receives when the handler body raised e
Caught(route, prefix, e) ==
    [route |-> route, status |-> 500, detail |-> <<prefix, e.detail>>,
     job_id |-> "", downloads |-> <<>>, cause |-> e]

\* ------------------------------------------------------- VideoProcessor
\* enhance_video: the filter list built from the options
EnhanceFilters(options) ==
    (IF options.denoise THEN <<"hqdn3d=1.5:1.5:6:6">> ELSE <<>>)
    \o (IF options.sharpen THEN <<"unsharp=5:5:0.8:3:3:0.4">> ELSE <<>>)
    \o (IF options.color_correct
        THEN <<"eq=contrast=1.05:brightness=0.02:saturation=1.05">> ELSE <<>>)

\* enhance_video: video.filter(*filters) adds ONE filter node whose name is
\* the first element of the list and whose arguments are the others
FilterChain(filters) ==
    IF filters = <<>> THEN <<>> ELSE <<"[">> \o filters \o <<"]">>

\* enhance_video: the artifact written when the transcoder succeeds
enhance_video(src, options) ==
    <<"enhanced", "libx264", "aac">> \o FilterChain(EnhanceFilters(options))
        \o <<"of">> \o src

\* remove_watermark as a step that rewrites the video
remove_watermark_Rewritten(src) == <<"cleaned", "of">> \o src

\* remove_watermark: shutil.copy2, a byte-identical copy
remove_watermark(src) == src

\* extract_audio: the audio stream only
extract_audio(src, format) ==
    <<"audio", IF format = "mp3" THEN "libmp3lame" ELSE "aac", "of">> \o src

\* create_short: the first duration seconds, re-encoded
create_short(src, duration) ==
    <<"short", ToString(duration), "libx264", "of">> \o src

\* replace_audio: the video stream of video_src with the audio of audio_src
replace_audio(video_src, audio_src) ==
    <<"mux", "video">> \o video_src \o <<"audio">> \o audio_src

\* ------------------------------------------------------------- /process
\* ProcessRequest: the declared fields; pydantic's BaseModel ignores the
\* fields of the body that the class does not declare
ProcessRequest(body) ==
    [filename |-> body.filename, voice_file |-> body.voice_file,
     enhance |-> body.enhance, remove_watermark |-> body.remove_watermark,
     replace_voice |-> body.replace_voice, create_short |-> body.create_short]

NoRequest ==
    [filename |-> NoName, voice_file |-> NoName, enhance |-> FALSE,
     remove_watermark |-> FALSE, replace_voice |-> FALSE,
     create_short |-> FALSE]

NoJob ==
    [pc |-> "idle", job_id |-> "", extra |-> {}, request |-> NoRequest,
     input_path |-> NoPath, base_name |-> NoName, timestamp |-> "",
     temp_files |-> <<>>, invoked |-> {}, reads |-> {}, written |-> {},
     exc |-> NoExc, failed |-> "", cleanup_ran |-> FALSE]

\* OutputName with the suffix of "final" pasted for "short" as well
OutputName_PastedSuffix(base_name, role, timestamp) ==
    base_name
    \o << CASE role = "enhanced" -> "_enhanced_"
            [] role = "no_watermark" -> "_nowm_"
            [] role = "audio" -> "_audio_"
            [] OTHER -> "_final_",
          timestamp,
          IF role = "audio" THEN ".mp3" ELSE ".mp4" >>

\* process_video: the name of the artifact of a role
OutputName(base_name, role, timestamp) ==
    base_name
    \o << CASE role = "enhanced" -> "_enhanced_"
            [] role = "no_watermark" -> "_nowm_"
            [] role = "audio" -> "_audio_"
            [] role = "short" -> "_short_"
            [] OTHER -> "_final_",
          timestamp,
          IF role = "audio" THEN ".mp3" ELSE ".mp4" >>

\* outputs with the enhanced video written over the input file
outputs_InPlace(j, role) ==
    IF role = "enhanced" THEN j.input_path
    ELSE join(OUTPUT_DIR, OutputName(j.base_name, role, j.timestamp))

\* process_video: outputs[role]
outputs(j, role) == join(OUTPUT_DIR, OutputName(j.base_name, role, j.timestamp))

\* process_video: the condition of the voice replacement branch
VoiceRequested(request) ==
    request.replace_voice /\ request.voice_file # NoName

\* process_video: the downloads of the response
Downloads(j) ==
    [role \in Roles |-> <<"/download/">> \o basename(outputs(j, role))]


\* a processor method was entered by the job: it read the files srcs
Invoke(j, step, srcs) ==
    [j EXCEPT !.invoked = @ \cup {step},
              !.reads = @ \cup {<<step, p>> : p \in srcs}]

\* history: job id wrote path
Wrote(w, job_id, path) ==
    [p \in DOMAIN w \cup {path} |->
        IF p = path THEN (IF p \in DOMAIN w THEN w[p] ELSE {}) \cup {job_id}
        ELSE w[p]]

\* the exception raised inside "except ffmpeg.Error as e" when e.stderr is
\* None: the f-string e.stderr.decode() is evaluated before logger.error
NoStderr == Exc("AttributeError", 0, "NoneType has no attribute decode")

\* the ways a call of a VideoProcessor method ends.  The ffmpeg methods call
\* output.run() without capture_stderr, and the transcoder binding then
\* puts stderr = None into ffmpeg.Error; both shapes of ffmpeg.Error are
\* kept.  remove_watermark has the one "except Exception" clause.
StepOutcomes(step) ==
    IF step = "remove_watermark" THEN {"ok", "error"}
    ELSE {"ok", "error", "error_no_stderr"}

\* One call of a VideoProcessor method from process_video: the method reads
\* srcs and, if the transcoder succeeds, writes content to out and the job
\* goes on at next; otherwise the except clause of the method logs the
\* error and raises, or fails itself before it has logged, and control
\* leaves the try block of process_video.
RunStep(step, srcs, out, content, next, error) ==
    \E outcome \in StepOutcomes(step) :
        IF outcome = "ok" /\ \A p \in srcs : exists(fs, p)
        THEN /\ fs' = WriteFile(fs, out, content)
             /\ writers' = Wrote(writers, job.job_id, out)
             /\ job' = [Invoke(job, step, srcs) EXCEPT
                            !.written = @ \cup {out}, !.pc = next]
             /\ log' = Append(log, LogRecord("INFO", step))
        ELSE IF outcome = "error_no_stderr"
        THEN /\ job' = [Invoke(job, step, srcs) EXCEPT
                            !.exc = NoStderr, !.failed = step, !.pc = "raised"]
             /\ log' = Append(log, LogRecord("INFO", step))
             /\ UNCHANGED <<fs, writers>>
        ELSE /\ job' = [Invoke(job, step, srcs) EXCEPT
                            !.exc = error, !.failed = step, !.pc = "raised"]
             /\ log' = log \o <<LogRecord("INFO", step),
                                LogRecord("ERROR", error.detail)>>
             /\ UNCHANGED <<fs, writers>>

\* process_video: shutil.copy2(outputs["no_watermark"], outputs["final"])
CopyFinal ==
    LET src == outputs(job, "no_watermark")
        dst == outputs(job, "final")
    IN  IF exists(fs, src)
        THEN /\ fs' = WriteFile(fs, dst, fs[src])
             /\ writers' = Wrote(writers, job.job_id, dst)
             /\ job' = [job EXCEPT !.reads = @ \cup {<<"copy2", src>>},
                                   !.written = @ \cup {dst},
                                   !.pc = "cleanup"]
        ELSE /\ job' = [job EXCEPT
                            !.exc = Exc("FileNotFoundError", 0, "No such file"),
                            !.pc = "raised"]
             /\ UNCHANGED <<fs, writers>>

\* no handler invocation is in progress on the event loop
Idle == job.pc \in {"idle", "done"}

\* the names of the files in a directory
listdir(files, dir) == {p.name : p \in {q \in DOMAIN files : q.dir = dir}}

\* the request bodies sent to /process
Bodies ==
    [filename : {n \in listdir(fs, UPLOAD_DIR) : n[1] = "video_"} \cup {GhostVideo},
     voice_file : {n \in listdir(fs, UPLOAD_DIR) : n[1] = "voice_"}
                      \cup {NoName, GhostVoice},
     enhance : BOOLEAN, remove_watermark : BOOLEAN,
     replace_voice : BOOLEAN, create_short : BOOLEAN,
     extra : {{}, {"stabilize"}}]

\* process_video: the job id is drawn and the start is logged
process_begin(body) ==
    /\ Idle
    /\ uuid < MaxUuid
    /\ job' = [NoJob EXCEPT !.pc = "validate", !.job_id = uuid4(uuid),
                            !.extra = body.extra,
                            !.request = ProcessRequest(body)]
    /\ uuid' = uuid + 1
    /\ reply' = NoReply
    /\ log' = <<LogRecord("INFO", "Starting job")>>
    /\ UNCHANGED <<fs, clock, writers>>
    /\ UNCHANGED flask_vars

\* InputMissing without the os.path.exists test
InputMissing_Unchecked(files, input_path) == FALSE

\* process_video: the input file named by the request is not there
InputMissing(files, input_path) == ~exists(files, input_path)

\* process_video: input validation, processor construction, output paths
process_validate ==
    /\ job.pc = "validate"
    /\ LET input_path == join(UPLOAD_DIR, job.request.filename)
       IN  IF InputMissing(fs, input_path)
           THEN /\ job' = [job EXCEPT
                       !.exc = Exc("HTTPException", 404, "Video file not found"),
                       !.pc = "raised"]
                /\ UNCHANGED log
           ELSE /\ job' = [job EXCEPT
                       !.input_path = input_path,
                       !.temp_files = <<>>,
                       !.base_name = splitext(job.request.filename)[1],
                       !.timestamp = ToString(clock),
                       !.pc = "enhance"]
                /\ log' = Append(log, LogRecord("INFO", "Initialized VideoProcessor"))
    /\ UNCHANGED <<fs, clock, uuid, reply, writers>>
    /\ UNCHANGED flask_vars

\* the content of a file, for a method that may be called on a missing file
read(files, path) == IF exists(files, path) THEN files[path] ELSE <<>>

\* process_video step 1: processor.enhance_video
process_enhance ==
    /\ job.pc = "enhance"
    /\ RunStep("enhance_video", {job.input_path}, outputs(job, "enhanced"),
               enhance_video(read(fs, job.input_path),
                             [denoise |-> job.request.enhance,
                              sharpen |-> job.request.enhance,
                              color_correct |-> job.request.enhance]),
               "watermark",
               Exc("RuntimeError", 0, "Video enhancement failed"))
    /\ UNCHANGED <<clock, uuid, reply>>
    /\ UNCHANGED flask_vars

\* process_watermark with the failure of the step swallowed: the pipeline
\* goes on without a no_watermark artifact of its own
process_watermark_Swallowed ==
    /\ job.pc = "watermark"
    /\ \E ok \in BOOLEAN :
        IF ok
        THEN /\ fs' = WriteFile(fs, outputs(job, "no_watermark"),
                                remove_watermark(read(fs, job.input_path)))
             /\ writers' = Wrote(writers, job.job_id, outputs(job, "no_watermark"))
             /\ job' = [Invoke(job, "remove_watermark", {job.input_path}) EXCEPT
                            !.written = @ \cup {outputs(job, "no_watermark")},
                            !.pc = "audio"]
             /\ log' = Append(log, LogRecord("INFO", "remove_watermark"))
        ELSE /\ job' = [Invoke(job, "remove_watermark", {job.input_path}) EXCEPT
                            !.failed = "remove_watermark", !.pc = "audio"]
             /\ log' = Append(log, LogRecord("ERROR", "Watermark removal error"))
             /\ UNCHANGED <<fs, writers>>
    /\ UNCHANGED <<clock, uuid, reply>>
    /\ UNCHANGED flask_vars

\* process_video step 2: processor.remove_watermark
process_watermark ==
    /\ job.pc = "watermark"
    /\ RunStep("remove_watermark", {job.input_path},
               outputs(job, "no_watermark"),
               remove_watermark(read(fs, job.input_path)),
               "audio",
               Exc("OSError", 0, "Watermark removal error"))
    /\ UNCHANGED <<clock, uuid, reply>>
    /\ UNCHANGED flask_vars

\* process_audio with the audio taken from the enhanced artifact
process_audio_Chained ==
    /\ job.pc = "audio"
    /\ RunStep("extract_audio", {outputs(job, "enhanced")}, outputs(job, "audio"),
               extract_audio(read(fs, outputs(job, "enhanced")), "mp3"),
               "short",
               Exc("RuntimeError", 0, "Audio extraction failed"))
    /\ UNCHANGED <<clock, uuid, reply>>
    /\ UNCHANGED flask_vars

\* process_video step 3: processor.extract_audio
process_audio ==
    /\ job.pc = "audio"
    /\ RunStep("extract_audio", {job.input_path}, outputs(job, "audio"),
               extract_audio(read(fs, job.input_path), "mp3"),
               "short",
               Exc("RuntimeError", 0, "Audio extraction failed"))
    /\ UNCHANGED <<clock, uuid, reply>>
    /\ UNCHANGED flask_vars

\* process_video step 4: processor.create_short, if requested
process_short ==
    /\ job.pc = "short"
    /\ IF job.request.create_short
       THEN RunStep("create_short", {job.input_path}, outputs(job, "short"),
                    create_short(read(fs, job.input_path), 30),
                    "voice",
                    Exc("RuntimeError", 0, "Short creation failed"))
       ELSE /\ job' = [job EXCEPT !.pc = "voice"]
            /\ UNCHANGED <<fs, log, writers>>
    /\ UNCHANGED <<clock, uuid, reply>>
    /\ UNCHANGED flask_vars

\* VoiceResolvable without the os.path.exists test on the voice file
VoiceResolvable_Unchecked(files, request) == VoiceRequested(request)

\* process_video: voice replacement is requested and the voice file is there
VoiceResolvable(files, request) ==
    /\ VoiceRequested(request)
    /\ exists(files, join(UPLOAD_DIR, request.voice_file))

\* process_video step 5: processor.replace_audio, or the copy of no_watermark
process_voice ==
    /\ job.pc = "voice"
    /\ LET voice_path == join(UPLOAD_DIR, job.request.voice_file)
       IN  IF VoiceResolvable(fs, job.request)
           THEN RunStep("replace_audio", {job.input_path, voice_path},
                        outputs(job, "final"),
                        replace_audio(read(fs, job.input_path),
                                      read(fs, voice_path)),
                        "cleanup",
                        Exc("RuntimeError", 0, "Audio replacement failed"))
           ELSE /\ CopyFinal
                /\ log' = IF VoiceRequested(job.request)
                          THEN Append(log, LogRecord("WARNING", "Voice file not found"))
                          ELSE log
    /\ UNCHANGED <<clock, uuid, reply>>
    /\ UNCHANGED flask_vars

\* VideoProcessor.cleanup: remove every recorded temporary file
cleanup(files, temp_files) == RemoveFiles(files, Range(temp_files))

\* VideoProcessor.cleanup: one log record per recorded temporary file
cleanup_log(files, temp_files) ==
    [i \in DOMAIN temp_files |->
        IF exists(files, temp_files[i])
        THEN LogRecord("INFO", "Removed temp file")
        ELSE LogRecord("WARNING", "Failed to remove temp file")]

\* process_video: processor.cleanup() at the end of the pipeline
process_cleanup ==
    /\ job.pc = "cleanup"
    /\ fs' = cleanup(fs, job.temp_files)
    /\ log' = log \o cleanup_log(fs, job.temp_files)
    /\ job' = [job EXCEPT !.cleanup_ran = TRUE, !.pc = "respond"]
    /\ UNCHANGED <<clock, uuid, reply, writers>>
    /\ UNCHANGED flask_vars

\* process_video: the success response
process_respond ==
    /\ job.pc = "respond"
    /\ reply' = Response("/process", job.job_id, <<>>, Downloads(job))
    /\ log' = Append(log, LogRecord("INFO", "Job completed successfully"))
    /\ job' = [job EXCEPT !.pc = "done"]
    /\ UNCHANGED <<fs, clock, uuid, writers>>
    /\ UNCHANGED flask_vars

\* process_video: "except Exception" turns whatever was raised into a 500
process_except ==
    /\ job.pc = "raised"
    /\ reply' = Caught("/process", "Processing failed: ", job.exc)
    /\ log' = Append(log, LogRecord("ERROR", "Job failed"))
    /\ job' = [job EXCEPT !.pc = "done"]
    /\ UNCHANGED <<fs, clock, uuid, writers>>
    /\ UNCHANGED flask_vars


\* --------------------------------------------------------------- /upload
\* the extensions of the files sent to /upload ("" : no voice sample sent)
VideoExts == {".mp4", ".MP4", ".exe"}
VoiceExts == {"", ".mp3", ".txt"}

\* upload_video: the number of uuid4() values the request makes it draw
UploadDraws(ext, voice) ==
    IF lower(ext) \notin ALLOWED_EXTENSIONS THEN 0
    ELSE IF voice = "" \/ lower(voice) \notin VOICE_EXTENSIONS THEN 1
    ELSE 2

\* upload_video: the whole handler
upload_video(ext, voice) ==
    /\ Idle
    /\ uuid + UploadDraws(ext, voice) <= MaxUuid
    /\ job' = NoJob
    /\ LET file_ext == lower(ext)
           video_filename == <<"video_", uuid4(uuid), file_ext>>
           saved == WriteFile(fs, join(UPLOAD_DIR, video_filename),
                              <<"bytes", uuid4(uuid)>>)
           voice_ext == lower(voice)
           voice_filename == <<"voice_", uuid4(uuid + 1), voice_ext>>
       IN  IF file_ext \notin ALLOWED_EXTENSIONS
           THEN /\ reply' = Caught("/upload", "Upload failed: ",
                                Exc("HTTPException", 400, "Invalid file type"))
                /\ log' = <<LogRecord("ERROR", "Upload failed")>>
                /\ UNCHANGED <<fs, uuid>>
           ELSE IF voice = ""
           THEN /\ fs' = saved
                /\ uuid' = uuid + 1
                /\ reply' = Response("/upload", "", <<>>,
                                      <<video_filename, NoName>>)
                /\ log' = <<LogRecord("INFO", "Uploaded video")>>
           ELSE IF voice_ext \notin VOICE_EXTENSIONS
           THEN /\ fs' = saved
                /\ uuid' = uuid + 1
                /\ reply' = Caught("/upload", "Upload failed: ",
                                Exc("HTTPException", 400, "Invalid voice file type"))
                /\ log' = <<LogRecord("ERROR", "Upload failed")>>
           ELSE /\ fs' = WriteFile(saved, join(UPLOAD_DIR, voice_filename),
                                   <<"bytes", uuid4(uuid + 1)>>)
                /\ uuid' = uuid + 2
                /\ reply' = Response("/upload", "", <<>>,
                                      <<video_filename, voice_filename>>)
                /\ log' = <<LogRecord("INFO", "Uploaded video"),
                            LogRecord("INFO", "Uploaded voice")>>
    /\ UNCHANGED <<clock, writers>>
    /\ UNCHANGED flask_vars

\* ------------------------------------------------------------- /download
\* the file names asked of /download: the references of the last manifest,
\* the files of the output directory and a name that was never written
DownloadNames ==
    (IF reply.route = "/process" /\ reply.status = 200
     THEN {Tail(reply.downloads[r]) : r \in DOMAIN reply.downloads} ELSE {})
    \cup listdir(fs, OUTPUT_DIR) \cup {GhostVideo}

\* download_file: the whole handler
download_file(filename) ==
    /\ Idle
    /\ job' = NoJob
    /\ LET file_path == join(OUTPUT_DIR, filename)
       IN  IF ~exists(fs, file_path)
           THEN /\ reply' = Caught("/download", "Download failed: ",
                                Exc("HTTPException", 404, "File not found"))
                /\ log' = <<LogRecord("ERROR", "Download failed")>>
           ELSE /\ reply' = Response("/download", "", fs[file_path],
                                      <<filename>>)
                /\ log' = <<>>
    /\ UNCHANGED <<fs, clock, uuid, writers>>
    /\ UNCHANGED flask_vars

\* ------------------------------------------------------------- the clock
\* time.time() is read at one place, when the output names are built: the
\* clock advances between requests and up to that read; an advance at any
\* other moment commutes with every step and is not modelled
Tick ==
    /\ job.pc = "validate"
    /\ clock < MaxClock
    /\ clock' = clock + 1
    /\ UNCHANGED <<fs, uuid, job, reply, log, writers>>
    /\ UNCHANGED flask_vars

\* ==================================================== the Flask backend
\* src/app.py: the trimming backend.  app.run() serves every request on a
\* thread of its own, so the steps of different requests interleave.  A
\* file name is a sequence of tokens; when it has two or more, the last one
\* is the extension after the last dot.

\* the number of uuid4() values the Flask backend draws (one per upload
\* saved by /process)
MaxFlaskUuid == 2
\* the number of times its clock is advanced
MaxFlaskTicks == 1

UPLOAD_FOLDER == "vikas_uploads"
PROCESSED_FOLDER == "vikas_processed"
FLASK_ALLOWED_EXTENSIONS == {"mp4", "mov", "avi", "mkv", "webm"}
MAX_FILE_AGE == 3600

\* the clock is advanced by a little more than MAX_FILE_AGE at a time, so
\* that a file is either fresh or older than MAX_FILE_AGE
TickSeconds == MAX_FILE_AGE + 1

\* allowed_file
allowed_file(filename) ==
    /\ Len(filename) >= 2
    /\ lower(filename[Len(filename)]) \in FLASK_ALLOWED_EXTENSIONS

\* werkzeug's secure_filename on the names the requests use: white space
\* becomes an underscore
secure_filename(filename) ==
    [i \in DOMAIN filename |->
        IF filename[i] = "my clip" THEN "my_clip" ELSE filename[i]]

\* float() accepts the string
IsFloat(str) == str \in {"-1", "0", "5"}

\* float()
float(str) ==
    CASE str = "-1" -> -1
      [] str = "0" -> 0
      [] OTHER -> 5

\* cleanup_old_files: the files left after those older than MAX_FILE_AGE
\* are removed
cleanup_old_files(files, now) ==
    [p \in {q \in DOMAIN files : ~(now - files[q] > MAX_FILE_AGE)} |-> files[p]]

\* the forms posted to /process
FlaskForms ==
    [has_video : BOOLEAN,
     filename : {<<>>, <<"clip">>, <<"clip", "exe">>, <<"my clip", "MP4">>},
     start_time : {"-1", "0", "5", "x"},
     end_time : {"0", "5"}]

\* a response of the Flask backend: the route, how the request ended, the
\* error shown, the id of the upload the request saved
FlaskResponse(route, result, error, id) ==
    [route |-> route, result |-> result, error |-> error, id |-> id]

\* process_video: the checks made before anything is saved
FormRejected(form) ==
    \/ ~form.has_video
    \/ form.filename = <<>>
    \/ ~allowed_file(form.filename)

\* process_video: the error shown by the checks made before the save
FormError(form) ==
    IF ~form.has_video THEN "no file uploaded"
    ELSE IF form.filename = <<>> THEN "empty filename"
    ELSE "wrong file type"

\* the locals of the request id are replaced by r
SetRequest(id, r) ==
    [i \in DOMAIN freq \cup {id} |-> IF i = id THEN r ELSE freq[i]]

\* index: cleanup_old_files, then the page
flask_index ==
    /\ ffs' = cleanup_old_files(ffs, fnow)
    /\ fres' = FlaskResponse("/", "ok", "", "")
    /\ UNCHANGED <<fnow, fuuid, freq>>
    /\ UNCHANGED vars

\* process_video: cleanup_old_files, then a form that fails a check made
\* before the save is answered with the error page
flask_process_reject(form) ==
    /\ FormRejected(form)
    /\ ffs' = cleanup_old_files(ffs, fnow)
    /\ fres' = FlaskResponse("/process", "rejected", FormError(form), "")
    /\ UNCHANGED <<fnow, fuuid, freq>>
    /\ UNCHANGED vars

\* process_video: cleanup_old_files, then the upload of a form that passes
\* the checks is saved under a unique name
flask_process_save(form) ==
    /\ ~FormRejected(form)
    /\ fuuid < MaxFlaskUuid
    /\ LET id == uuid4(fuuid)
           filename == <<"vikas_", id, "_">> \o secure_filename(form.filename)
           upload_path == join(UPLOAD_FOLDER, filename)
       IN  /\ ffs' = WriteFile(cleanup_old_files(ffs, fnow), upload_path, fnow)
           /\ freq' = SetRequest(id,
                          [pc |-> "times", form |-> form, filename |-> filename,
                           upload_path |-> upload_path,
                           created |-> {upload_path},
                           input_seen |-> "unread", outcome |-> ""])
    /\ fuuid' = fuuid + 1
    /\ UNCHANGED <<fnow, fres>>
    /\ UNCHANGED vars

\* process_video: the times are parsed and validated, after the save
flask_process_times(id) ==
    /\ freq[id].pc = "times"
    /\ LET form == freq[id].form
       IN  IF ~IsFloat(form.start_time) \/ ~IsFloat(form.end_time)
           THEN /\ freq' = SetRequest(id, [freq[id] EXCEPT
                               !.pc = "done", !.outcome = "error"])
                /\ fres' = FlaskResponse("/process", "error", "system error", id)
           ELSE IF float(form.start_time) < 0 \/ float(form.end_time) < 0
           THEN /\ freq' = SetRequest(id, [freq[id] EXCEPT
                               !.pc = "done", !.outcome = "rejected"])
                /\ fres' = FlaskResponse("/process", "rejected", "negative time", id)
           ELSE IF float(form.start_time) >= float(form.end_time)
           THEN /\ freq' = SetRequest(id, [freq[id] EXCEPT
                               !.pc = "done", !.outcome = "rejected"])
                /\ fres' = FlaskResponse("/process", "rejected",
                                         "end not after start", id)
           ELSE /\ freq' = SetRequest(id, [freq[id] EXCEPT !.pc = "trim"])
                /\ UNCHANGED fres
    /\ UNCHANGED <<ffs, fnow, fuuid>>
    /\ UNCHANGED vars

\* process_video: the trimming: the upload is opened and the trimmed video
\* is written, or the error is caught and shown
flask_process_trim(id) ==
    /\ freq[id].pc = "trim"
    /\ LET output_path == join(PROCESSED_FOLDER,
                               <<"vikas_trimmed_">> \o freq[id].filename)
       IN  IF ~exists(ffs, freq[id].upload_path)
           THEN /\ freq' = SetRequest(id, [freq[id] EXCEPT
                               !.pc = "done", !.outcome = "error",
                               !.input_seen = "missing"])
                /\ fres' = FlaskResponse("/process", "error", "processing error", id)
                /\ UNCHANGED ffs
           ELSE \E ok \in BOOLEAN :
                IF ok
                THEN /\ ffs' = WriteFile(ffs, output_path, fnow)
                     /\ freq' = SetRequest(id, [freq[id] EXCEPT
                                    !.pc = "done", !.outcome = "ok",
                                    !.input_seen = "present",
                                    !.created = @ \cup {output_path}])
                     /\ fres' = FlaskResponse("/process", "ok", "", id)
                ELSE /\ freq' = SetRequest(id, [freq[id] EXCEPT
                                    !.pc = "done", !.outcome = "error",
                                    !.input_seen = "present"])
                     /\ fres' = FlaskResponse("/process", "error",
                                              "processing error", id)
                     /\ UNCHANGED ffs
    /\ UNCHANGED <<fnow, fuuid>>
    /\ UNCHANGED vars

\* download_file of the Flask backend
flask_download(filename) ==
    /\ fres' = IF exists(ffs, join(PROCESSED_FOLDER, filename))
               THEN FlaskResponse("/download", "ok", "", "")
               ELSE FlaskResponse("/download", "error", "file not found", "")
    /\ UNCHANGED <<ffs, fnow, fuuid, freq>>
    /\ UNCHANGED vars

\* cleanup: every file of both folders is removed
flask_cleanup ==
    /\ ffs' = RemoveFiles(ffs, DOMAIN ffs)
    /\ fres' = FlaskResponse("/cleanup", "ok", "", "")
    /\ UNCHANGED <<fnow, fuuid, freq>>
    /\ UNCHANGED vars

\* time passes
flask_tick ==
    /\ fnow < MaxFlaskTicks * TickSeconds
    /\ fnow' = fnow + TickSeconds
    /\ UNCHANGED <<ffs, fuuid, freq, fres>>
    /\ UNCHANGED vars

\* --------------------------------------------------------- specification
Init ==
    /\ fs = <<>>
    /\ clock = 0
    /\ uuid = 0
    /\ job = NoJob
    /\ reply = NoReply
    /\ log = <<>>
    /\ writers = <<>>
    /\ ffs = <<>>
    /\ fnow = 0
    /\ fuuid = 0
    /\ freq = <<>>
    /\ fres = FlaskResponse("", "", "", "")

Next ==
    \/ \E ext \in VideoExts, voice \in VoiceExts : upload_video(ext, voice)
    \/ \E body \in Bodies : process_begin(body)
    \/ process_validate
    \/ process_enhance
    \/ process_watermark
    \/ process_audio
    \/ process_short
    \/ process_voice
    \/ process_cleanup
    \/ process_respond
    \/ process_except
    \/ \E filename \in DownloadNames : download_file(filename)
    \/ Tick

Spec == Init /\ [][Next]_vars

NextFlask ==
    \/ flask_index
    \/ \E form \in FlaskForms : flask_process_reject(form)
    \/ \E form \in FlaskForms : flask_process_save(form)
    \/ \E id \in DOMAIN freq : flask_process_times(id)
    \/ \E id \in DOMAIN freq : flask_process_trim(id)
    \/ \E filename \in listdir(ffs, PROCESSED_FOLDER) \cup {GhostVideo} :
           flask_download(filename)
    \/ flask_cleanup
    \/ flask_tick

SpecFlask == Init /\ [][NextFlask]_flask_vars


\* ================================================================ claims
\* the /process invocation has returned its response to the caller
Returned == job.pc = "done"

\* the /process invocation has returned the success manifest
Succeeded == Returned /\ reply.route = "/process" /\ reply.status = 200

\* the file a download reference of a manifest points to
Referenced(ref) == join(OUTPUT_DIR, Tail(ref))

\* the request asks for every step, with a voice file that is there
FullRequest(request) ==
    /\ request.enhance
    /\ request.remove_watermark
    /\ request.create_short
    /\ request.replace_voice
    /\ request.voice_file # NoName
    /\ exists(fs, join(UPLOAD_DIR, request.voice_file))

\* C1: a job with an existing input that requests the full step set and
\* whose steps all succeed returns a manifest with exactly the five roles,
\* whose references are pairwise distinct and name files that exist in the
\* output directory when the response is returned.
C1_FullManifest ==
    (Succeeded /\ FullRequest(job.request)) =>
        /\ DOMAIN reply.downloads = Roles
        /\ \A r1, r2 \in Roles :
               r1 # r2 => reply.downloads[r1] # reply.downloads[r2]
        /\ \A r \in Roles : exists(fs, Referenced(reply.downloads[r]))

C1_Witness ==
    /\ Succeeded
    /\ FullRequest(job.request)
    /\ job.invoked = {"enhance_video", "remove_watermark", "extract_audio",
                      "create_short", "replace_audio"}

\* C2: two distinct jobs never write the same output path.
C2_DisjointOutputs ==
    \A p \in DOMAIN writers : Cardinality(writers[p]) <= 1

\* C3: if create_short fails and no other step does, the job still returns
\* a manifest in which enhanced, no_watermark, audio and final are present
\* and reference existing artifacts.
C3_ShortFailureIsolated ==
    (Returned /\ job.failed = "create_short") =>
        /\ reply.status = 200
        /\ {"enhanced", "no_watermark", "audio", "final"}
               \subseteq DOMAIN reply.downloads
        /\ \A r \in {"enhanced", "no_watermark", "audio", "final"} :
               exists(fs, join(OUTPUT_DIR, OutputName(job.base_name, r, job.timestamp)))

\* the independent steps the request asks the pipeline to run
IndependentSteps(request) ==
    {"enhance_video", "remove_watermark", "extract_audio"}
    \cup (IF request.create_short THEN {"create_short"} ELSE {})

\* C4: when one of enhance, extract_audio and create_short fails, every
\* other independent step is still executed and the job is not reported to
\* the caller as failed.
C4_SiblingsProceed ==
    (Returned /\ job.failed \in {"enhance_video", "extract_audio", "create_short"}) =>
        /\ IndependentSteps(job.request) \subseteq job.invoked
        /\ reply.status # 500

\* replace_voice is requested and the voice reference is missing
VoiceMissing(request) ==
    /\ request.replace_voice
    /\ \/ request.voice_file = NoName
       \/ ~exists(fs, join(UPLOAD_DIR, request.voice_file))

\* the job is past step 5 of the pipeline
PastVoiceStep ==
    \/ job.pc \in {"cleanup", "respond"}
    \/ Returned /\ job.exc = NoExc

\* C5: with replace_voice requested and the voice reference missing,
\* replace_audio is never invoked, step 5 does not fail the job, and once
\* step 5 has run final exists and is byte-identical to the job's
\* no_watermark artifact, and the job returns the success response.
C5_MissingVoiceFallsBack ==
    (job.pc # "idle" /\ VoiceMissing(job.request)) =>
        /\ "replace_audio" \notin job.invoked
        /\ job.failed # "replace_audio"
        /\ job.exc.type # "FileNotFoundError"
        /\ PastVoiceStep =>
               /\ exists(fs, outputs(job, "final"))
               /\ fs[outputs(job, "final")] = fs[outputs(job, "no_watermark")]
               /\ outputs(job, "final") \in job.written
               /\ Returned => reply.status = 200

C5_Witness ==
    /\ Succeeded
    /\ VoiceMissing(job.request)
    /\ job.request.voice_file = GhostVoice
    /\ fs[outputs(job, "final")] = fs[job.input_path]

\* the request asks for the step that produces the role
RoleRequested(request, role) ==
    CASE role = "enhanced" -> request.enhance
      [] role = "no_watermark" -> request.remove_watermark
      [] role = "short" -> request.create_short
      [] OTHER -> TRUE

\* the step that produces the role was executed by the job
RoleExecuted(j, role) == outputs(j, role) \in j.written

\* C6: the manifest of a successful job contains a role only if the step
\* of that role was requested and executed.
C6_OnlyRequestedRoles ==
    Succeeded =>
        \A role \in DOMAIN reply.downloads :
            RoleRequested(job.request, role) /\ RoleExecuted(job, role)

\* C7: a request that names a step outside the catalog is rejected as a
\* whole: no step is executed, no file is written, the response is a
\* rejection.
C7_UnknownStepRejected ==
    (job.pc # "idle" /\ job.extra # {}) =>
        /\ job.invoked = {}
        /\ job.written = {}
        /\ Returned => reply.status # 200

\* the input file named by the request of the job is not in the upload
\* directory
InputAbsent == ~exists(fs, join(UPLOAD_DIR, job.request.filename))

\* C8: if the input file does not exist when the request is handled, no
\* VideoProcessor step is invoked, the job writes no file, and the caller
\* receives a failure response.
C8_MissingInputFailsFast ==
    (job.pc \notin {"idle", "validate"} /\ InputAbsent) =>
        /\ job.pc \in {"raised", "done"}
        /\ job.invoked = {}
        /\ job.written = {}
        /\ \A p \in DOMAIN writers : job.job_id \notin writers[p]
        /\ Returned => (reply.route = "/process" /\ reply.status >= 400)

C8_Witness ==
    /\ Returned
    /\ InputAbsent
    /\ reply.status = 500
    /\ job.exc.status = 404

\* C9: a rejection raised deliberately by a handler (HTTPException with its
\* own status) reaches the caller with that status.
C9_RejectionKeepsStatus ==
    reply.cause.type = "HTTPException" => reply.status = reply.cause.status

\* C10: whenever a job whose processor was constructed has returned,
\* VideoProcessor.cleanup has been run and no recorded temp file exists.
C10_CleanupOnEveryExit ==
    (Returned /\ job.input_path # NoPath) =>
        /\ job.cleanup_ran
        /\ \A i \in DOMAIN job.temp_files : ~exists(fs, job.temp_files[i])


\* C11: when replace_audio runs, it takes its video from the job's
\* no_watermark artifact and not from the uploaded input.
C11_FinalFromCleanedVideo ==
    "replace_audio" \in job.invoked =>
        /\ <<"replace_audio", outputs(job, "no_watermark")>> \in job.reads
        /\ <<"replace_audio", job.input_path>> \notin job.reads

\* C12: no step of a job writes, truncates or deletes a file of the upload
\* directory: the input file and the voice file keep their content.
C12_InputsUntouched ==
    [][\A p \in DOMAIN fs :
           p.dir = UPLOAD_DIR => (p \in DOMAIN fs' /\ fs'[p] = fs[p])]_vars

C12_Witness ==
    /\ job.pc = "cleanup"
    /\ job.invoked = {"enhance_video", "remove_watermark", "extract_audio",
                      "create_short", "replace_audio"}
    /\ exists(fs, job.input_path)
    /\ exists(fs, join(UPLOAD_DIR, job.request.voice_file))

\* the log of the handler invocation holds a record of level ERROR
ErrorLogged == \E i \in DOMAIN log : log[i][1] = "ERROR"

\* C13: every failure writes a log record before it is reported or
\* recovered: a step failure inside VideoProcessor, a failure response of a
\* handler, and a file that cleanup cannot remove.
C13_FailuresLogged ==
    /\ (job.pc = "raised" /\ job.failed # "") => ErrorLogged
    /\ reply.status >= 400 => ErrorLogged
    /\ \A role \in Roles :
           ~exists(fs, outputs(job, role)) =>
               cleanup_log(fs, <<outputs(job, role)>>)[1][1] = "WARNING"

\* C14: final is written only after the same job's remove_watermark has
\* succeeded; if remove_watermark fails, the job never writes final.
C14_FinalAfterWatermark ==
    /\ outputs(job, "final") \in job.written =>
           /\ outputs(job, "no_watermark") \in job.written
           /\ "remove_watermark" \in job.invoked
           /\ job.failed # "remove_watermark"
    /\ job.failed = "remove_watermark" =>
           /\ outputs(job, "final") \notin job.written
           /\ "replace_audio" \notin job.invoked
           /\ <<"copy2", outputs(job, "no_watermark")>> \notin job.reads

\* remove_watermark failed in a job while a no_watermark file of the same
\* name, left by an earlier job, is there
C14_Witness ==
    /\ Returned
    /\ job.failed = "remove_watermark"
    /\ exists(fs, outputs(job, "no_watermark"))
    /\ reply.status = 500

\* process_video: the options passed to enhance_video
EnhanceOptions(request) ==
    [denoise |-> request.enhance, sharpen |-> request.enhance,
     color_correct |-> request.enhance]

\* C15: enhance, extract_audio and create_short read the job's input file
\* only, so the artifact of each is a function of the input alone.
C15_SiblingsReadInput ==
    /\ \A r \in job.reads :
           r[1] \in {"enhance_video", "extract_audio", "create_short"} =>
               /\ r[2] = job.input_path
               /\ r[2].dir = UPLOAD_DIR
               /\ r[2] \notin job.written
    /\ outputs(job, "enhanced") \in job.written =>
           fs[outputs(job, "enhanced")] =
               enhance_video(fs[job.input_path], EnhanceOptions(job.request))
    /\ outputs(job, "audio") \in job.written =>
           fs[outputs(job, "audio")] = extract_audio(fs[job.input_path], "mp3")
    /\ outputs(job, "short") \in job.written =>
           fs[outputs(job, "short")] = create_short(fs[job.input_path], 30)

C15_Witness ==
    /\ job.pc = "voice"
    /\ {"enhance_video", "extract_audio", "create_short"} \subseteq job.invoked
    /\ outputs(job, "short") \in job.written

\* C16: after remove_watermark succeeds no_watermark is byte-identical to
\* the input file, and in a job where replace_audio is not performed final
\* is byte-identical to the input file too.
C16_WatermarkIsCopy ==
    /\ outputs(job, "no_watermark") \in job.written =>
           fs[outputs(job, "no_watermark")] = fs[job.input_path]
    /\ (outputs(job, "final") \in job.written
            /\ "replace_audio" \notin job.invoked) =>
           fs[outputs(job, "final")] = fs[job.input_path]

C16_Witness ==
    /\ Succeeded
    /\ "replace_audio" \notin job.invoked
    /\ outputs(job, "final") \in job.written
    /\ fs[outputs(job, "final")] # <<>>

\* the number of filter stages of a chain
NumStages(chain) == Cardinality({i \in DOMAIN chain : chain[i] = "["})

\* the number of enabled options
NumEnabled(options) ==
    Cardinality({o \in {"denoise", "sharpen", "color_correct"} : options[o]})

\* C17: the filter chain enhance_video applies has exactly one stage per
\* enabled option and none for a disabled one.
C17_OneStagePerOption ==
    "enhance_video" \in job.invoked =>
        NumStages(FilterChain(EnhanceFilters(EnhanceOptions(job.request))))
            = NumEnabled(EnhanceOptions(job.request))

\* C18: every download reference of a success manifest names a file that
\* this job wrote and that exists in the output directory.
C18_ReferencesResolve ==
    Succeeded =>
        \A role \in DOMAIN reply.downloads :
            /\ Referenced(reply.downloads[role]) \in job.written
            /\ exists(fs, Referenced(reply.downloads[role]))


\* C19: the upload saved by a /process request of the Flask backend is
\* still there when the trimming step of that request opens it.
C19_UploadSurvivesUntilTrim ==
    \A id \in DOMAIN freq : freq[id].input_seen # "missing"

\* C20: a /process request of the Flask backend that is rejected by input
\* validation leaves no file it created in the upload or processed folder.
C20_RejectionWritesNothing ==
    \A id \in DOMAIN freq :
        freq[id].outcome = "rejected" => freq[id].created \cap DOMAIN ffs = {}

====
